---- MODULE Spec2Model ----
(***************************************************************************)
(* Model of sentencepiece's TrainerInterface (trainer_interface.cc): the   *)
(* constructor (VerifySpec, InitMetaPieces), LoadSentences (the line loop  *)
(* with its SentenceSelector, the normalization by a pool of workers, the  *)
(* required characters), Serialize and the save operations.                *)
(*                                                                         *)
(* A text is a sequence of codepoints (integers).  The trainer's position  *)
(* is pc.  The specifications share the variables:                         *)
(*   SpecMeta  construction of the meta piece registry                     *)
(*   SpecSer   construction, external training, Serialize                  *)
(*   SpecSave  construction, external training, SaveModel/SaveVocab/Save   *)
(*   SpecLoad  construction and the line loop of LoadSentences             *)
(*   SpecNorm  construction and the whole of LoadSentences, small corpora  *)
(*   SpecPool  as SpecNorm, with fairness of the caller and the workers    *)
(*   SpecWord  wordpiece_encode_as_subwords (rcpp_wordpiece.cpp)           *)
(***************************************************************************)
EXTENDS Integers, Sequences, FiniteSets, TLC

VARIABLES
    pc,                 \* position of the trainer
    trainer_spec_,      \* TrainerSpec given to the constructor
    status_,            \* util::Status of the trainer: "ok" or "error"
    meta_pieces_,       \* std::map<int, pair<string, Type>>
    dup,                \* InitMetaPieces: std::set<std::string> dup
    id,                 \* InitMetaPieces: int id, the allocation cursor
    sym_i,              \* InitMetaPieces: index of the next symbol to insert
    final_pieces_,      \* pieces learned by the external trainer
    model_proto,        \* ModelProto filled by Serialize
    ser_status,         \* status returned by Serialize: "none", "ok", "error"
    model_file,         \* the file SaveModel writes: [written, content]
    vocab_file,         \* the file SaveVocab writes: [written, content]
    save_status,        \* status returned by the save operation called
    saved_by,           \* the save operation called
    files,              \* the file system: name -> [ok, lines]
    file_i,             \* LoadSentences: index into trainer_spec_.input()
    line_i,             \* LoadSentences: lines of the current file read so far
    sentences_,         \* the corpus
    self_test_samples_, \* samples kept by test_sentence_sampler
    selector,           \* SentenceSelector: its sampler (total_, engine)
    test_total,         \* test_sentence_sampler.total_
    twin,               \* a second run of the selector over the same stream
    too_long_lines,     \* LoadSentences: int too_long_lines
    load_status,        \* status returned by LoadSentences so far
    hist,               \* history: what was read and offered, the corpus
                        \* as selected and as normalized
    normalizer_spec_,   \* NormalizerSpec given to the constructor
    pool,               \* thread::ThreadPool: worker n -> [i, phase, text]
    access,             \* per sentence slot: the workers that accessed it
                        \* and the number of writes
    required_chars_,    \* codepoint -> frequency
    chars_count,        \* LoadSentences: chars_count
    all_chars_count,    \* LoadSentences: all_chars_count
    load_error,         \* the check of LoadSentences that failed
    word,               \* the arguments of wordpiece_encode_as_subwords
    output_tokens       \* what wordpiece_encode_as_subwords returned

metaVars == <<meta_pieces_, dup, id, sym_i>>
outVars  == <<model_file, vocab_file, save_status, saved_by>>
serVars  == <<final_pieces_, model_proto, ser_status, outVars>>
normVars == <<normalizer_spec_, pool, access, required_chars_, chars_count,
              all_chars_count, load_error>>
loadVars == <<files, file_i, line_i, sentences_, self_test_samples_, selector,
              test_total, twin, too_long_lines, load_status, hist, normVars>>
wordVars == <<word, output_tokens>>
vars     == <<pc, trainer_spec_, status_, metaVars, serVars, loadVars, wordVars>>

-----------------------------------------------------------------------------
(* Codepoints and texts                                                    *)

kWSChar          == 9601
kUNKChar         == 9605
kUPPBoundaryChar == 9
kSpaceChar       == 32
\* a codepoint that is not valid UTF-8 once encoded
kBadChar         == 1114112

kUNKStr == <<kUNKChar>>

Empty == <<>>
TU  == <<117>>                 \* "u", stands for <unk>
TS  == <<115>>                 \* "s", stands for <s>
TE  == <<101>>                 \* "e", stands for </s>
TP  == <<112>>                 \* "p", stands for <pad>
TX  == <<120>>                 \* "x", a symbol
TA  == <<97>>                  \* "a"
TB  == <<98>>                  \* "b"
TXS == <<120, 32, 121>>        \* "x y": holds a raw space
TXU == <<120, 9605>>           \* holds the unknown character
TBad == <<1114112>>            \* not structurally valid

Contains(text, c) == \E k \in 1..Len(text) : text[k] = c

\* util.h string_util::IsStructurallyValid: every codepoint decodes
IsStructurallyValid(text) == \A k \in 1..Len(text) : text[k] # kBadChar

Min(a, b) == IF a <= b THEN a ELSE b

Take(s, n) == SubSeq(s, 1, Min(n, Len(s)))

-----------------------------------------------------------------------------
(* Bounds                                                                  *)

MaxVocab == 3
MaxSyms  == 2
MaxFinal == 2

-----------------------------------------------------------------------------
(* TrainerSpec                                                             *)

\* The defaults of a TrainerSpec that passes VerifySpec.
DefaultSpec ==
    [ model_prefix |-> "m", input |-> <<1>>, vocab_size |-> 3,
      model_type |-> "UNIGRAM", use_all_vocab |-> FALSE,
      character_coverage |-> 100, max_sentencepiece_length |-> 16,
      num_sub_iterations |-> 2, num_threads |-> 1,
      self_test_sample_size |-> 0, shrinking_factor |-> 75,
      max_sentence_length |-> 10, input_sentence_size |-> 0,
      shuffle_input_sentence |-> TRUE, input_format |-> "",
      hard_vocab_limit |-> TRUE,
      unk_id |-> 0, bos_id |-> 1, eos_id |-> 2, pad_id |-> -1,
      unk_piece |-> TU, bos_piece |-> TS, eos_piece |-> TE, pad_piece |-> TP,
      control_symbols |-> <<>>, user_defined_symbols |-> <<>> ]

InRange(v, minval, maxval) == v >= minval /\ v <= maxval

\* VerifySpec: TRUE iff the status returned is OK.  Fractions are in percent.
VerifySpec(ts) ==
    /\ ts.model_prefix # ""
    /\ Len(ts.input) > 0
    /\ ts.vocab_size > 0
    /\ (ts.model_type \in {"UNIGRAM", "BPE"} => ~ts.use_all_vocab)
    /\ InRange(ts.character_coverage, 98, 100)
    /\ InRange(ts.max_sentencepiece_length, 1, 512)
    /\ InRange(ts.num_sub_iterations, 1, 10)
    /\ InRange(ts.num_threads, 1, 128)
    /\ InRange(ts.self_test_sample_size, 0, 1000)
    /\ InRange(ts.shrinking_factor, 50, 95)
    /\ InRange(ts.max_sentence_length, 10, 1073741824)
    /\ (ts.input_sentence_size <= 0 \/ ts.input_sentence_size > 100)
    /\ ts.unk_piece # Empty
    /\ ts.bos_piece # Empty
    /\ ts.eos_piece # Empty
    /\ ts.pad_piece # Empty

\* The sequences over S of length at most n.
RECURSIVE SeqsUpTo(_, _)
SeqsUpTo(S, n) ==
    IF n = 0 THEN {<<>>}
    ELSE LET shorter == SeqsUpTo(S, n - 1)
         IN  shorter \cup {Append(s, x) : s \in {t \in shorter : Len(t) = n - 1}, x \in S}

-----------------------------------------------------------------------------
(* InitMetaPieces                                                          *)

NoPieces == [k \in {} |-> [piece |-> Empty, type |-> "NORMAL"]]

Put(m, k, v) == [j \in DOMAIN m \cup {k} |-> IF j = k THEN v ELSE m[j]]

\* Mutant of insert_id: a second reserved symbol may carry the unknown text.
insert_id_second_unk(ts, r, i, w) ==
    IF ~r.ok THEN r
    ELSE IF i < 0 THEN r
    ELSE IF i >= ts.vocab_size \/ i \in DOMAIN r.meta
         THEN [r EXCEPT !.ok = FALSE]
    ELSE [ meta    |-> Put(r.meta, i,
                           [piece |-> w,
                            type  |-> IF w = ts.unk_piece THEN "UNKNOWN"
                                      ELSE "CONTROL"]),
           has_unk |-> r.has_unk \/ w = ts.unk_piece,
           ok      |-> TRUE ]

\* The lambda insert_id.  r is [meta, has_unk, ok]; a failed CHECK_OR_RETURN
\* leaves the calls after it undone.
insert_id(ts, r, i, w) ==
    IF ~r.ok THEN r
    ELSE IF i < 0 THEN r
    ELSE IF \/ i >= ts.vocab_size
            \/ i \in DOMAIN r.meta
            \/ (r.has_unk /\ w = ts.unk_piece)
         THEN [r EXCEPT !.ok = FALSE]
    ELSE [ meta    |-> Put(r.meta, i,
                           [piece |-> w,
                            type  |-> IF w = ts.unk_piece THEN "UNKNOWN"
                                      ELSE "CONTROL"]),
           has_unk |-> r.has_unk \/ w = ts.unk_piece,
           ok      |-> TRUE ]

\* The four insert_id calls and the has_unk check that follows them.
InsertReserved(ts) ==
    LET r0 == [meta |-> NoPieces, has_unk |-> FALSE, ok |-> TRUE]
        r1 == insert_id(ts, r0, ts.unk_id, ts.unk_piece)
        r2 == insert_id(ts, r1, ts.bos_id, ts.bos_piece)
        r3 == insert_id(ts, r2, ts.eos_id, ts.eos_piece)
        r4 == insert_id(ts, r3, ts.pad_id, ts.pad_piece)
    IN  [r4 EXCEPT !.ok = r4.ok /\ r4.has_unk]

\* Mutant of NextFree: the cursor is used as it stands.
NextFreeNoSkip(meta, i) == i

\* while (meta_pieces_.find(id) != meta_pieces_.end()) ++id;
RECURSIVE NextFree(_, _)
NextFree(meta, i) == IF i \in DOMAIN meta THEN NextFree(meta, i + 1) ELSE i

\* meta_pieces_[i].second = type; operator[] makes the entry when absent.
SetType(meta, i, type) ==
    IF i \in DOMAIN meta THEN [meta EXCEPT ![i].type = type]
    ELSE Put(meta, i, [piece |-> Empty, type |-> type])

\* Mutant of insert_meta_symbol: a symbol named like a reserved one is given
\* the category and an identifier of its own as well.
insert_meta_symbol_alias_allocates(ts, st, w, type) ==
    IF w \in st.dup
    THEN [meta |-> st.meta, dup |-> st.dup, id |-> st.id, ok |-> FALSE]
    ELSE LET d == st.dup \cup {w}
             m == IF w = ts.bos_piece /\ ts.bos_id >= 0
                  THEN SetType(st.meta, ts.bos_id, type)
                  ELSE IF w = ts.eos_piece /\ ts.eos_id >= 0
                  THEN SetType(st.meta, ts.eos_id, type)
                  ELSE IF w = ts.pad_piece /\ ts.pad_id >= 0
                  THEN SetType(st.meta, ts.pad_id, type)
                  ELSE st.meta
             n == NextFree(m, st.id)
         IN  IF w = ts.unk_piece
             THEN [meta |-> st.meta, dup |-> d, id |-> st.id, ok |-> FALSE]
             ELSE [meta |-> Put(m, n, [piece |-> w, type |-> type]),
                   dup |-> d, id |-> n, ok |-> TRUE]

\* The lambda insert_meta_symbol.  st is [meta, dup, id]; the result adds ok.
insert_meta_symbol(ts, st, w, type) ==
    IF w \in st.dup
    THEN [meta |-> st.meta, dup |-> st.dup, id |-> st.id, ok |-> FALSE]
    ELSE LET d == st.dup \cup {w} IN
         IF w = ts.unk_piece
         THEN [meta |-> st.meta, dup |-> d, id |-> st.id, ok |-> FALSE]
         ELSE IF w = ts.bos_piece /\ ts.bos_id >= 0
         THEN [meta |-> SetType(st.meta, ts.bos_id, type), dup |-> d,
               id |-> st.id, ok |-> TRUE]
         ELSE IF w = ts.eos_piece /\ ts.eos_id >= 0
         THEN [meta |-> SetType(st.meta, ts.eos_id, type), dup |-> d,
               id |-> st.id, ok |-> TRUE]
         ELSE IF w = ts.pad_piece /\ ts.pad_id >= 0
         THEN [meta |-> SetType(st.meta, ts.pad_id, type), dup |-> d,
               id |-> st.id, ok |-> TRUE]
         ELSE LET n == NextFree(st.meta, st.id) IN
              [meta |-> Put(st.meta, n, [piece |-> w, type |-> type]),
               dup |-> d, id |-> n, ok |-> TRUE]

\* control_symbols() then user_defined_symbols(), in the order of the two loops.
MetaSymbols(ts) ==
    [k \in 1..(Len(ts.control_symbols) + Len(ts.user_defined_symbols)) |->
        IF k <= Len(ts.control_symbols)
        THEN [w |-> ts.control_symbols[k], type |-> "CONTROL"]
        ELSE [w |-> ts.user_defined_symbols[k - Len(ts.control_symbols)],
              type |-> "USER_DEFINED"]]

\* TrainerInterface::TrainerInterface up to the symbol loops of InitMetaPieces.
Construct ==
    /\ pc = "new"
    /\ IF ~VerifySpec(trainer_spec_)
       THEN /\ status_' = "error"
            /\ pc' = "constructed"
            /\ UNCHANGED meta_pieces_
       ELSE LET r == InsertReserved(trainer_spec_) IN
            /\ meta_pieces_' = r.meta
            /\ status_' = IF r.ok THEN "ok" ELSE "error"
            /\ pc' = IF r.ok THEN "init_meta" ELSE "constructed"
    /\ UNCHANGED <<trainer_spec_, wordVars, dup, id, sym_i, serVars, loadVars>>

\* One iteration of the control_symbols or user_defined_symbols loop.
InsertMetaSymbol ==
    /\ pc = "init_meta"
    /\ sym_i <= Len(MetaSymbols(trainer_spec_))
    /\ LET s == MetaSymbols(trainer_spec_)[sym_i]
           r == insert_meta_symbol(trainer_spec_,
                                   [meta |-> meta_pieces_, dup |-> dup, id |-> id],
                                   s.w, s.type)
       IN  /\ meta_pieces_' = r.meta
           /\ dup' = r.dup
           /\ id' = r.id
           /\ sym_i' = sym_i + 1
           /\ status_' = IF r.ok THEN "ok" ELSE "error"
           /\ pc' = IF r.ok THEN "init_meta" ELSE "constructed"
    /\ UNCHANGED <<trainer_spec_, wordVars, serVars, loadVars>>

\* return util::OkStatus() at the end of InitMetaPieces.
InitMetaPiecesReturn ==
    /\ pc = "init_meta"
    /\ sym_i > Len(MetaSymbols(trainer_spec_))
    /\ status_' = "ok"
    /\ pc' = "constructed"
    /\ UNCHANGED <<trainer_spec_, wordVars, metaVars, serVars, loadVars>>

-----------------------------------------------------------------------------
(* Serialize                                                               *)

\* The macro CHECK_PIECE: TRUE iff none of its three checks returns.
CHECK_PIECE(piece, d) ==
    /\ IsStructurallyValid(piece)
    /\ piece # Empty
    /\ piece \notin d

\* Mutant of MetaIndexOk: the position of a meta piece is not checked.
MetaIndexUnchecked(ps, i) == TRUE

\* CHECK_EQ_OR_RETURN(model_proto->pieces_size() - 1, it->first)
MetaIndexOk(ps, i) == Len(ps) - 1 = i

\* The loop of Serialize from identifier i on.  The result is
\* [ok, pieces, fid, dup]; a failed check returns with the piece already added.
RECURSIVE SerializeLoop(_, _, _, _, _, _, _)
SerializeLoop(ts, meta, fp, i, fid, pieces, d) ==
    IF i >= ts.vocab_size
    THEN [ok |-> TRUE, pieces |-> pieces, fid |-> fid, dup |-> d]
    ELSE IF i \in DOMAIN meta
    THEN LET sp == [piece |-> meta[i].piece, type |-> meta[i].type, score |-> 0]
             ps == Append(pieces, sp)
         IN  IF /\ MetaIndexOk(ps, i)
                /\ "NORMAL" # sp.type
                /\ CHECK_PIECE(sp.piece, d)
             THEN SerializeLoop(ts, meta, fp, i + 1, fid, ps, d \cup {sp.piece})
             ELSE [ok |-> FALSE, pieces |-> ps, fid |-> fid, dup |-> d]
    ELSE IF fid < Len(fp)
    THEN LET w  == fp[fid + 1]
             sp == [piece |-> w.piece, type |-> "NORMAL", score |-> w.score]
             ps == Append(pieces, sp)
         IN  IF CHECK_PIECE(sp.piece, d)
             THEN SerializeLoop(ts, meta, fp, i + 1, fid + 1, ps, d \cup {sp.piece})
             ELSE [ok |-> FALSE, pieces |-> ps, fid |-> fid + 1, dup |-> d]
    ELSE SerializeLoop(ts, meta, fp, i + 1, fid, pieces, d)

EmptyProto == [pieces |-> <<>>, has_trainer_spec |-> FALSE, vocab_size |-> 0]

\* Mutant of VocabLimitOk: the hard limit is checked like the soft one.
VocabLimitSoftOnly(ts, npieces, ndup) ==
    ts.vocab_size >= npieces /\ ts.vocab_size >= ndup

\* The checks on the piece count after the loop of Serialize.
VocabLimitOk(ts, npieces, ndup) ==
    IF ~ts.hard_vocab_limit \/ ts.model_type = "CHAR"
    THEN ts.vocab_size >= npieces /\ ts.vocab_size >= ndup
    ELSE ts.vocab_size = npieces /\ ts.vocab_size = ndup

\* Mutant of AllConsumed: learned pieces left over are not looked for.
ConsumedUnchecked(fid, fp) == TRUE

\* CHECK_EQ_OR_RETURN(fid, final_pieces_.size())
AllConsumed(fid, fp) == fid = Len(fp)

\* TrainerInterface::Serialize: [ok, proto].
Serialize(ts, status, meta, fp) ==
    IF status # "ok" THEN [ok |-> FALSE, proto |-> EmptyProto]
    ELSE LET r == SerializeLoop(ts, meta, fp, 0, 0, <<>>, {})
             p == [EmptyProto EXCEPT !.pieces = r.pieces]
         IN  IF ~r.ok \/ ~AllConsumed(r.fid, fp) THEN [ok |-> FALSE, proto |-> p]
             ELSE LET q == [p EXCEPT !.has_trainer_spec = TRUE,
                                     !.vocab_size = ts.vocab_size]
                  IN  IF ~VocabLimitOk(ts, Len(r.pieces), Cardinality(r.dup))
                      THEN [ok |-> FALSE, proto |-> q]
                      ELSE IF ~ts.hard_vocab_limit \/ ts.model_type = "CHAR"
                      THEN [ok |-> TRUE,
                            proto |-> [q EXCEPT !.vocab_size = Len(r.pieces)]]
                      ELSE [ok |-> TRUE, proto |-> q]

\* What the external piece learning may leave in final_pieces_.
LearnedPieces ==
    { [piece |-> TA, score |-> -1], [piece |-> TB, score |-> -2],
      [piece |-> TS, score |-> -1], [piece |-> Empty, score |-> -1],
      [piece |-> TXS, score |-> -2], [piece |-> TBad, score |-> -1] }

\* The derived trainer's Train() fills final_pieces_.
Train ==
    /\ pc = "constructed"
    /\ status_ = "ok"
    /\ final_pieces_' \in SeqsUpTo(LearnedPieces, MaxFinal)
    /\ pc' = "trained"
    /\ UNCHANGED <<trainer_spec_, wordVars, status_, metaVars, model_proto, ser_status,
                   outVars, loadVars>>

\* A call of Serialize on a fresh ModelProto.
DoSerialize ==
    /\ pc \in {"constructed", "trained"}
    /\ LET r == Serialize(trainer_spec_, status_, meta_pieces_, final_pieces_)
       IN  /\ model_proto' = r.proto
           /\ ser_status' = IF r.ok THEN "ok" ELSE "error"
    /\ pc' = "serialized"
    /\ UNCHANGED <<trainer_spec_, wordVars, status_, metaVars, final_pieces_, outVars, loadVars>>

\* A file not written.
NoOutput == [written |-> FALSE, content |-> <<>>]

\* TrainerInterface::SaveModel: [ok, file].  sp_ok: the self-test encoding
\* succeeds; file_ok: the output file can be opened.
SaveModel(ts, status, meta, fp, samples, sp_ok, file_ok) ==
    LET r == Serialize(ts, status, meta, fp) IN
    IF ~r.ok THEN [ok |-> FALSE, file |-> NoOutput]
    ELSE IF samples # <<>> /\ ~sp_ok THEN [ok |-> FALSE, file |-> NoOutput]
    ELSE IF ~file_ok THEN [ok |-> FALSE, file |-> NoOutput]
    ELSE [ok |-> TRUE, file |-> [written |-> TRUE, content |-> r.proto.pieces]]

\* TrainerInterface::SaveVocab: [ok, file].  file_ok: the output file can
\* be opened; n: the number of lines WriteLine accepts.
SaveVocab(ts, status, meta, fp, file_ok, n) ==
    LET r == Serialize(ts, status, meta, fp)
        ps == r.proto.pieces
        lines == [k \in 1..Min(n, Len(ps)) |-> <<ps[k].piece, ps[k].score>>]
    IN  IF ~file_ok THEN [ok |-> FALSE, file |-> NoOutput]
        ELSE [ok |-> n >= Len(ps), file |-> [written |-> TRUE, content |-> lines]]

\* A call of SaveModel.
DoSaveModel ==
    /\ pc \in {"constructed", "trained"}
    /\ \E sp_ok \in (IF self_test_samples_ = <<>> THEN {TRUE} ELSE BOOLEAN),
          file_ok \in BOOLEAN :
          LET r == SaveModel(trainer_spec_, status_, meta_pieces_, final_pieces_,
                             self_test_samples_, sp_ok, file_ok)
          IN  /\ model_file' = r.file
              /\ save_status' = IF r.ok THEN "ok" ELSE "error"
    /\ saved_by' = "SaveModel"
    /\ pc' = "saved"
    /\ UNCHANGED <<trainer_spec_, wordVars, status_, metaVars, final_pieces_, model_proto,
                   ser_status, vocab_file, loadVars>>

\* A call of SaveVocab.
DoSaveVocab ==
    /\ pc \in {"constructed", "trained"}
    /\ \E file_ok \in BOOLEAN, n \in 0..MaxVocab :
          LET r == SaveVocab(trainer_spec_, status_, meta_pieces_, final_pieces_,
                             file_ok, n)
          IN  /\ vocab_file' = r.file
              /\ save_status' = IF r.ok THEN "ok" ELSE "error"
    /\ saved_by' = "SaveVocab"
    /\ pc' = "saved"
    /\ UNCHANGED <<trainer_spec_, wordVars, status_, metaVars, final_pieces_, model_proto,
                   ser_status, model_file, loadVars>>

\* A call of TrainerInterface::Save: SaveModel, then SaveVocab.
DoSave ==
    /\ pc \in {"constructed", "trained"}
    /\ \E sp_ok \in (IF self_test_samples_ = <<>> THEN {TRUE} ELSE BOOLEAN),
          model_ok \in BOOLEAN, vocab_ok \in BOOLEAN, n \in 0..MaxVocab :
          LET m == SaveModel(trainer_spec_, status_, meta_pieces_, final_pieces_,
                             self_test_samples_, sp_ok, model_ok)
              v == SaveVocab(trainer_spec_, status_, meta_pieces_, final_pieces_,
                             vocab_ok, n)
          IN  /\ model_file' = m.file
              /\ vocab_file' = IF m.ok THEN v.file ELSE vocab_file
              /\ save_status' = IF m.ok /\ v.ok THEN "ok" ELSE "error"
    /\ saved_by' = "Save"
    /\ pc' = "saved"
    /\ UNCHANGED <<trainer_spec_, wordVars, status_, metaVars, final_pieces_, model_proto,
                   ser_status, loadVars>>

-----------------------------------------------------------------------------
(* Initial states and specifications                                       *)

\* The pairs of symbol lists with at most n symbols in all.
SymbolLists(C, U, n) ==
    { p \in SeqsUpTo(C, n) \X SeqsUpTo(U, n) : Len(p[1]) + Len(p[2]) <= n }

ReservedIds == -1..2
\* unk_piece, bos_piece, eos_piece: one empty, all distinct, two alike
MetaReservedPieces ==
    { <<Empty, TS, TE>>, <<TU, TS, TE>>, <<TU, TU, TE>>, <<TU, TS, TS>>,
      <<TU, TU, TU>> }
MetaControlSymbols == {TS, TX, TU}
MetaUserSymbols == {TP, TX}

NoFiles == <<>>

\* "[UNK]", the default unk_token
UnkToken == <<91, 85, 78, 75, 93>>

NoWord == [x |-> <<>>, vocabulary |-> {}, unk_token |-> UnkToken,
           max_input_chars_per_word |-> 100]

NoHist == [read |-> 0, opened |-> 0, test |-> 0, sel |-> 0, last |-> <<>>,
           selected |-> <<>>, normalized |-> <<>>]

\* The defaults of a NormalizerSpec.
DefaultNormalizerSpec ==
    [add_dummy_prefix |-> TRUE, remove_extra_whitespaces |-> TRUE,
     escape_whitespaces |-> TRUE]

NoCounts == [c \in {} |-> 0]

InitNormVars ==
    /\ pool = <<>>
    /\ access = <<>>
    /\ required_chars_ = NoCounts
    /\ chars_count = NoCounts
    /\ all_chars_count = 0
    /\ load_error = "none"

InitLoadVars ==
    /\ files = NoFiles
    /\ file_i = 1
    /\ line_i = 0
    /\ sentences_ = <<>>
    /\ self_test_samples_ = <<>>
    /\ selector = [total |-> 0, engine |-> 0]
    /\ test_total = 0
    /\ twin = [sentences |-> <<>>, total |-> 0, engine |-> 0]
    /\ too_long_lines = 0
    /\ load_status = "none"
    /\ hist = NoHist
    /\ normalizer_spec_ = DefaultNormalizerSpec
    /\ InitNormVars

InitTrainer ==
    /\ pc = "new"
    /\ status_ = "ok"
    /\ meta_pieces_ = NoPieces
    /\ dup = {}
    /\ id = 0
    /\ sym_i = 1
    /\ final_pieces_ = <<>>
    /\ model_proto = EmptyProto
    /\ ser_status = "none"
    /\ model_file = NoOutput
    /\ vocab_file = NoOutput
    /\ save_status = "none"
    /\ saved_by = "none"
    /\ word = NoWord
    /\ output_tokens = <<>>

\* SpecMeta constructs a trainer from any of these configurations.
InitMeta ==
    /\ \E v \in 1..MaxVocab, ids \in ReservedIds \X ReservedIds \X ReservedIds,
          padid \in {-1, 2}, txt \in MetaReservedPieces,
          syms \in SymbolLists(MetaControlSymbols, MetaUserSymbols, MaxSyms) :
          trainer_spec_ =
              [DefaultSpec EXCEPT !.vocab_size = v, !.unk_id = ids[1],
                                  !.bos_id = ids[2], !.eos_id = ids[3],
                                  !.pad_id = padid,
                                  !.unk_piece = txt[1], !.bos_piece = txt[2],
                                  !.eos_piece = txt[3],
                                  !.control_symbols = syms[1],
                                  !.user_defined_symbols = syms[2]]
    /\ InitTrainer
    /\ InitLoadVars

NextMeta ==
    \/ Construct
    \/ InsertMetaSymbol
    \/ InitMetaPiecesReturn

SpecMeta == InitMeta /\ [][NextMeta]_vars

SerReservedPieces == { <<TU, TS, TE>>, <<TU, TS, TS>> }
SerControlSymbols == {TX, TXS}
SerUserSymbols == {TXU}

\* SpecSer constructs a trainer from any of these configurations.
InitSer ==
    /\ \E v \in 1..MaxVocab, bosid \in {-1, 1}, eosid \in {-1, 2},
          txt \in SerReservedPieces, hard \in BOOLEAN,
          type \in {"UNIGRAM", "CHAR"},
          syms \in SymbolLists(SerControlSymbols, SerUserSymbols, MaxSyms) :
          trainer_spec_ =
              [DefaultSpec EXCEPT !.vocab_size = v, !.bos_id = bosid,
                                  !.eos_id = eosid,
                                  !.unk_piece = txt[1], !.bos_piece = txt[2],
                                  !.eos_piece = txt[3],
                                  !.hard_vocab_limit = hard,
                                  !.model_type = type,
                                  !.control_symbols = syms[1],
                                  !.user_defined_symbols = syms[2]]
    /\ InitTrainer
    /\ InitLoadVars

NextSer ==
    \/ Construct
    \/ InsertMetaSymbol
    \/ InitMetaPiecesReturn
    \/ Train
    \/ DoSerialize

SpecSer == InitSer /\ [][NextSer]_vars

\* SpecSave: construction, external training, one of the save operations.
NextSave ==
    \/ Construct
    \/ InsertMetaSymbol
    \/ InitMetaPiecesReturn
    \/ Train
    \/ DoSaveModel
    \/ DoSaveVocab
    \/ DoSave

SpecSave == InitSer /\ [][NextSave]_vars

-----------------------------------------------------------------------------
(* LoadSentences: reading and selecting the corpus                         *)

FileLen == 60

kSeed == 12345678

\* The bytes of codepoint c in UTF-8.
Utf8Len(c) == IF c < 128 THEN 1 ELSE IF c < 2048 THEN 2 ELSE IF c < 65536 THEN 3 ELSE 4

\* std::string::size() of a text.
RECURSIVE ByteSize(_)
ByteSize(text) == IF text = <<>> THEN 0 ELSE Utf8Len(Head(text)) + ByteSize(Tail(text))

\* string_util::Split(str, "\t"): the non-empty runs between tabs.
RECURSIVE Split(_, _, _)
Split(str, cur, out) ==
    IF str = <<>> THEN (IF cur = <<>> THEN out ELSE Append(out, cur))
    ELSE IF Head(str) = 9
         THEN Split(Tail(str), <<>>, IF cur = <<>> THEN out ELSE Append(out, cur))
         ELSE Split(Tail(str), Append(cur, Head(str)), out)

\* std::atoll on a text: an optional minus, then the leading digits.
RECURSIVE Digits(_, _)
Digits(text, acc) ==
    IF text # <<>> /\ Head(text) >= 48 /\ Head(text) <= 57
    THEN Digits(Tail(text), acc * 10 + (Head(text) - 48))
    ELSE acc

Atoll(text) ==
    IF text # <<>> /\ Head(text) = 45 THEN 0 - Digits(Tail(text), 0)
    ELSE Digits(text, 0)

\* The tsv block of the line loop: [ok, sentence, freq].
ParseLine(ts, line) ==
    IF ts.input_format = "tsv"
    THEN LET v == Split(line, <<>>, <<>>) IN
         IF Len(v) # 2 THEN [ok |-> FALSE, sentence |-> line, freq |-> 1]
         ELSE IF Atoll(v[2]) < 1
              THEN [ok |-> FALSE, sentence |-> v[1], freq |-> Atoll(v[2])]
              ELSE [ok |-> TRUE, sentence |-> v[1], freq |-> Atoll(v[2])]
    ELSE [ok |-> TRUE, sentence |-> line, freq |-> 1]

\* Mutant of LineOutcome: a line that holds the reserved marker is kept.
LineOutcomeKeepsReserved(ts, line) ==
    LET p == ParseLine(ts, line) IN
    IF ~p.ok THEN "error"
    ELSE IF p.sentence = <<>> THEN "empty"
    ELSE IF ByteSize(p.sentence) > ts.max_sentence_length THEN "too_long"
    ELSE "accept"

\* What the body of the line loop does with a line: "error" (the load
\* fails), "empty", "too_long", "reserved" (each skips the line) or "accept".
LineOutcome(ts, line) ==
    LET p == ParseLine(ts, line) IN
    IF ~p.ok THEN "error"
    ELSE IF p.sentence = <<>> THEN "empty"
    ELSE IF ByteSize(p.sentence) > ts.max_sentence_length THEN "too_long"
    ELSE IF Contains(p.sentence, kUNKChar) THEN "reserved"
    ELSE "accept"

\* The engine of a sampler: a linear congruential generator stands for the
\* standard one; a draw is a function of the engine's state alone.
NextEngine(e) == (e * 75 + 74) % 65537

\* random::ReservoirSampler<T>::Add with the draw n given.
SamplerAddDrawn(sampled, total, size, item, n) ==
    IF size = 0 THEN [sampled |-> sampled, total |-> total]
    ELSE IF Len(sampled) < size
         THEN [sampled |-> Append(sampled, item), total |-> total + 1]
         ELSE IF n < Len(sampled)
              THEN [sampled |-> [sampled EXCEPT ![n + 1] = item], total |-> total + 1]
              ELSE [sampled |-> sampled, total |-> total + 1]

\* Mutant of SelectorStops: the head limit does not stop the loading.
SelectorNeverStops(ts, size) == FALSE

\* SentenceSelector::Add returns false: the limit is reached without shuffling.
SelectorStops(ts, size) ==
    /\ ts.input_sentence_size > 0
    /\ ~ts.shuffle_input_sentence
    /\ size >= ts.input_sentence_size

\* SentenceSelector::Add hands the sentence to its sampler.
SelectorSamples(ts) == ts.input_sentence_size > 0 /\ ts.shuffle_input_sentence

\* Mutant of SelectorAdd: Add returns false once the limit is reached, with
\* or without shuffling.
SelectorAddStopsWhenFull(ts, r, sentence) ==
    IF SelectorSamples(ts)
    THEN LET e == NextEngine(r.engine)
             full == Len(r.sentences) >= ts.input_sentence_size
             a == SamplerAddDrawn(r.sentences, r.total, ts.input_sentence_size,
                                  sentence, e % (r.total + 1))
         IN  [sentences |-> a.sampled, total |-> a.total,
              engine |-> IF full THEN e ELSE r.engine,
              more |-> Len(a.sampled) < ts.input_sentence_size]
    ELSE LET ss == Append(r.sentences, sentence)
         IN  [sentences |-> ss, total |-> r.total, engine |-> r.engine,
              more |-> ~SelectorStops(ts, Len(ss))]

\* SentenceSelector::Add on a run r = [sentences, total, engine]:
\* the run after the call and whether Add returned true.
SelectorAdd(ts, r, sentence) ==
    IF SelectorSamples(ts)
    THEN LET e == NextEngine(r.engine)
             full == Len(r.sentences) >= ts.input_sentence_size
             a == SamplerAddDrawn(r.sentences, r.total, ts.input_sentence_size,
                                  sentence, e % (r.total + 1))
         IN  [sentences |-> a.sampled, total |-> a.total,
              engine |-> IF full THEN e ELSE r.engine, more |-> TRUE]
    ELSE LET ss == Append(r.sentences, sentence)
         IN  [sentences |-> ss, total |-> r.total, engine |-> r.engine,
              more |-> ~SelectorStops(ts, Len(ss))]

\* The seed of the engine of the selector's sampler in run k.
SelectorSeed(k) == kSeed % 65537

\* LoadSentences up to the loop over the input files.
LoadBegin ==
    /\ pc = "constructed"
    /\ load_status = "none"
    /\ IF /\ status_ = "ok"
          /\ sentences_ = <<>>
          /\ trainer_spec_.input_format \in {"", "text", "tsv"}
       THEN /\ pc' = "open"
            /\ selector' = [total |-> 0, engine |-> SelectorSeed(1)]
            /\ twin' = [sentences |-> <<>>, total |-> 0, engine |-> SelectorSeed(2)]
            /\ UNCHANGED load_status
       ELSE /\ pc' = "load_failed"
            /\ load_status' = "error"
            /\ UNCHANGED <<selector, twin>>
    /\ UNCHANGED <<trainer_spec_, wordVars, status_, metaVars, serVars, files, file_i,
                   line_i, sentences_, self_test_samples_, test_total,
                   too_long_lines, hist, normVars>>

\* filesystem::NewReadableFile for the next input file and its status check.
OpenFile ==
    /\ pc = "open"
    /\ file_i <= Len(trainer_spec_.input)
    /\ hist' = [hist EXCEPT !.opened = @ + 1]
    /\ IF files[trainer_spec_.input[file_i]].ok
       THEN pc' = "read" /\ UNCHANGED load_status
       ELSE pc' = "load_failed" /\ load_status' = "error"
    /\ line_i' = 0
    /\ UNCHANGED <<trainer_spec_, wordVars, status_, metaVars, serVars, files, file_i,
                   sentences_, self_test_samples_, selector, test_total, twin,
                   too_long_lines, normVars>>

CurrentLines == files[trainer_spec_.input[file_i]].lines

\* ReadLine returns false: on to the next file.
EndOfFile ==
    /\ pc = "read"
    /\ line_i = Len(CurrentLines)
    /\ file_i' = file_i + 1
    /\ pc' = "open"
    /\ UNCHANGED <<trainer_spec_, wordVars, status_, metaVars, serVars, files, line_i,
                   sentences_, self_test_samples_, selector, test_total, twin,
                   too_long_lines, load_status, hist, normVars>>

\* What an accepted line is offered to, in the order of the calls:
\* test_sentence_sampler.Add(sentence), then selector.Add(...).
Offers == <<"test_sentence_sampler", "selector">>

\* One pass through the body of the line loop.
ReadLine ==
    /\ pc = "read"
    /\ line_i < Len(CurrentLines)
    /\ line_i' = line_i + 1
    /\ LET line == CurrentLines[line_i + 1]
           p == ParseLine(trainer_spec_, line)
           what == LineOutcome(trainer_spec_, line)
           size == trainer_spec_.self_test_sample_size
       IN  IF what = "accept"
           THEN LET r == SelectorAdd(trainer_spec_,
                                     [sentences |-> sentences_, total |-> selector.total,
                                      engine |-> selector.engine],
                                     <<p.sentence, p.freq>>)
                    t == SelectorAdd(trainer_spec_, twin, <<p.sentence, p.freq>>)
                IN  /\ \E n \in 0..Min(test_total, size) :
                          LET a == SamplerAddDrawn(self_test_samples_, test_total,
                                                   size, p.sentence, n)
                          IN  /\ self_test_samples_' = a.sampled
                              /\ test_total' = a.total
                    /\ sentences_' = r.sentences
                    /\ selector' = [total |-> r.total, engine |-> r.engine]
                    /\ twin' = [sentences |-> t.sentences, total |-> t.total,
                                engine |-> t.engine]
                    /\ pc' = IF r.more THEN "read" ELSE "selected"
                    /\ load_status' = load_status
                    /\ too_long_lines' = too_long_lines
                    /\ hist' = [hist EXCEPT !.read = @ + 1, !.test = @ + 1,
                                             !.sel = @ + 1, !.last = Offers]
           ELSE /\ pc' = IF what = "error" THEN "load_failed" ELSE "read"
                /\ load_status' = IF what = "error" THEN "error" ELSE load_status
                /\ too_long_lines' = IF what = "too_long" THEN too_long_lines + 1
                                     ELSE too_long_lines
                /\ hist' = [hist EXCEPT !.read = @ + 1, !.last = <<>>]
                /\ UNCHANGED <<sentences_, self_test_samples_, selector,
                               test_total, twin>>
    /\ UNCHANGED <<trainer_spec_, wordVars, status_, metaVars, serVars, files, file_i,
                   normVars>>

\* The loop over the input files ends; the label END is reached.
EndOfInput ==
    /\ pc = "open"
    /\ file_i > Len(trainer_spec_.input)
    /\ pc' = "selected"
    /\ UNCHANGED <<trainer_spec_, wordVars, status_, metaVars, serVars, loadVars>>

\* Lines of input files.
LA      == <<97>>                          \* "a"
LB      == <<98, 99>>                      \* "bc"
LLong   == <<9601, 9601, 9601, 9601>>      \* 12 bytes
LUnk    == <<97, 9605>>                    \* holds the reserved marker
LTa     == <<97, 9, 50>>                   \* "a<tab>2"
LTb     == <<98, 99, 9, 49>>               \* "bc<tab>1"
LTLong  == <<9601, 9601, 9601, 9601, 9, 49>>
LTUnk   == <<9605, 9, 51>>
LTZero  == <<97, 9, 48>>                   \* "a<tab>0"
LTWord  == <<97, 9, 98>>                   \* "a<tab>b"

\* n lines that repeat the pattern.
Cycle(pattern, n) == [k \in 1..n |-> pattern[((k - 1) % Len(pattern)) + 1]]

TextPattern == <<LA, LB, Empty, LB, LLong, LA, LUnk, LB>>
TsvPattern  == <<LTa, LTb, LTLong, LTb, LTUnk, LTa, LTb, LTa>>

TextFile == [ok |-> TRUE, lines |-> Cycle(TextPattern, FileLen)]
TsvFile  == [ok |-> TRUE, lines |-> Cycle(TsvPattern, FileLen)]
NoFile   == [ok |-> FALSE, lines |-> <<>>]

\* The file systems SpecLoad reads; the input is every file, in order.
Corpora ==
    { <<TextFile>>,
      <<TextFile, TextFile, TextFile, TextFile>>,
      <<TextFile, TextFile, TextFile, NoFile>>,
      <<[ok |-> TRUE, lines |-> <<LA, Empty, LB>>], [ok |-> TRUE, lines |-> <<>>]>>,
      <<TsvFile, TsvFile, TsvFile, TsvFile>>,
      <<TsvFile, TsvFile, TsvFile, [ok |-> TRUE, lines |-> <<LTa, LTZero>>]>>,
      <<[ok |-> TRUE, lines |-> <<LTa, Empty, LTb>>]>>,
      <<[ok |-> TRUE, lines |-> <<LTb, LTWord>>]>> }

\* SpecLoad constructs a trainer from any of these configurations.
InitLoad ==
    /\ files \in Corpora
    /\ \E format \in {"", "text", "tsv", "csv"}, size \in {0, 100, 101},
          shuffle \in BOOLEAN, samples \in {0, 1} :
          trainer_spec_ =
              [DefaultSpec EXCEPT !.input = [k \in 1..Len(files) |-> k],
                                  !.input_format = format,
                                  !.input_sentence_size = size,
                                  !.shuffle_input_sentence = shuffle,
                                  !.self_test_sample_size = samples]
    /\ InitTrainer
    /\ file_i = 1
    /\ line_i = 0
    /\ sentences_ = <<>>
    /\ self_test_samples_ = <<>>
    /\ selector = [total |-> 0, engine |-> 0]
    /\ test_total = 0
    /\ twin = [sentences |-> <<>>, total |-> 0, engine |-> 0]
    /\ too_long_lines = 0
    /\ load_status = "none"
    /\ hist = NoHist
    /\ normalizer_spec_ = DefaultNormalizerSpec
    /\ InitNormVars

NextLoad ==
    \/ Construct
    \/ InitMetaPiecesReturn
    \/ LoadBegin
    \/ OpenFile
    \/ ReadLine
    \/ EndOfFile
    \/ EndOfInput

SpecLoad == InitLoad /\ [][NextLoad]_vars

-----------------------------------------------------------------------------
(* LoadSentences: normalization                                            *)

MaxLines   == 3
MaxThreads == 3

\* The runs of text between spaces.
RECURSIVE Words(_, _, _)
Words(text, cur, out) ==
    IF text = <<>> THEN (IF cur = <<>> THEN out ELSE Append(out, cur))
    ELSE IF Head(text) = kSpaceChar
         THEN Words(Tail(text), <<>>, IF cur = <<>> THEN out ELSE Append(out, cur))
         ELSE Words(Tail(text), Append(cur, Head(text)), out)

\* The words joined by one space each.
RECURSIVE JoinWords(_)
JoinWords(ws) ==
    IF ws = <<>> THEN <<>>
    ELSE IF Len(ws) = 1 THEN ws[1]
    ELSE ws[1] \o <<kSpaceChar>> \o JoinWords(Tail(ws))

\* normalizer::Normalizer::Normalize: leading, trailing and repeated spaces
\* are removed, a space is put in front of a text that is not empty, and
\* every space is written as kWSChar, each as the NormalizerSpec asks.
Normalize(ns, text) ==
    LET t == IF ns.remove_extra_whitespaces
             THEN JoinWords(Words(text, <<>>, <<>>)) ELSE text
        q == IF ns.add_dummy_prefix /\ t # <<>> THEN <<kSpaceChar>> \o t ELSE t
    IN  IF ns.escape_whitespaces
        THEN [k \in 1..Len(q) |-> IF q[k] = kSpaceChar THEN kWSChar ELSE q[k]]
        ELSE q

\* meta_pieces_set: the texts of the meta pieces.
MetaPiecesSet(meta) == {meta[i].piece : i \in DOMAIN meta}

\* normalizer::PrefixMatcher::GlobalReplace(text, kUPPBoundaryStr): from left
\* to right, the longest meta piece that starts here becomes the marker.
RECURSIVE GlobalReplace(_, _)
GlobalReplace(ms, text) ==
    IF text = <<>> THEN <<>>
    ELSE LET lens == {Len(m) : m \in {x \in ms : /\ x # <<>>
                                                  /\ Len(x) <= Len(text)
                                                  /\ SubSeq(text, 1, Len(x)) = x}}
         IN  IF lens = {}
             THEN <<Head(text)>> \o GlobalReplace(ms, Tail(text))
             ELSE LET l == CHOOSE x \in lens : \A y \in lens : y <= x
                  IN  <<kUPPBoundaryChar>> \o
                      GlobalReplace(ms, SubSeq(text, l + 1, Len(text)))

\* What a worker stores in a sentence slot.
NormalizedText(text) ==
    GlobalReplace(MetaPiecesSet(meta_pieces_), Normalize(normalizer_spec_, text))

\* Mutant of CorpusNonEmpty: an empty corpus is let through.
CorpusUnchecked(ss) == TRUE

\* CHECK_OR_RETURN(!sentences_.empty())
CorpusNonEmpty(ss) == ss # <<>>

\* From the label END to the making of the thread pool.
NormalizeBegin ==
    /\ pc = "selected"
    /\ IF CorpusNonEmpty(sentences_)
       THEN /\ pc' = "schedule"
            /\ access' = [k \in 1..Len(sentences_) |-> [by |-> {}, writes |-> 0]]
            /\ hist' = [hist EXCEPT !.selected = sentences_]
            /\ UNCHANGED <<load_status, load_error>>
       ELSE /\ pc' = "load_failed"
            /\ load_status' = "error"
            /\ load_error' = "empty_corpus"
            /\ UNCHANGED <<access, hist>>
    /\ UNCHANGED <<trainer_spec_, wordVars, status_, metaVars, serVars, files, file_i,
                   line_i, sentences_, self_test_samples_, selector, test_total,
                   twin, too_long_lines, normalizer_spec_, pool, required_chars_,
                   chars_count, all_chars_count>>

\* pool->Schedule(...) for the next n; after the last one the scope of the
\* pool is left.
Schedule ==
    /\ pc = "schedule"
    /\ LET n == Cardinality(DOMAIN pool) IN
       /\ n < trainer_spec_.num_threads
       /\ pool' = Put(pool, n, [i |-> n, phase |-> "idle", text |-> <<>>])
       /\ pc' = IF n + 1 < trainer_spec_.num_threads THEN "schedule" ELSE "join"
    /\ UNCHANGED <<trainer_spec_, wordVars, status_, metaVars, serVars, files, file_i,
                   line_i, sentences_, self_test_samples_, selector, test_total,
                   twin, too_long_lines, load_status, hist, normalizer_spec_,
                   access, required_chars_, chars_count, all_chars_count,
                   load_error>>

\* Mutant of NextIndex: the worker goes on to the next sentence.
NextIndexByOne(ts, i) == i + 1

\* i += trainer_spec_.num_threads()
NextIndex(ts, i) == i + ts.num_threads

\* Worker n reads sentence i and computes its new text.
WorkerRead(n) ==
    /\ n \in DOMAIN pool
    /\ pool[n].phase = "idle"
    /\ pool[n].i < Len(sentences_)
    /\ pool' = [pool EXCEPT ![n].phase = "write",
                            ![n].text = NormalizedText(sentences_[pool[n].i + 1][1])]
    /\ access' = [access EXCEPT ![pool[n].i + 1].by = @ \cup {n}]
    /\ UNCHANGED <<pc, trainer_spec_, wordVars, status_, metaVars, serVars, files, file_i,
                   line_i, sentences_, self_test_samples_, selector, test_total,
                   twin, too_long_lines, load_status, hist, normalizer_spec_,
                   required_chars_, chars_count, all_chars_count, load_error>>

\* Worker n writes sentence i and steps to its next index.
WorkerWrite(n) ==
    /\ n \in DOMAIN pool
    /\ pool[n].phase = "write"
    /\ pool[n].i < Len(sentences_)
    /\ sentences_' = [sentences_ EXCEPT ![pool[n].i + 1][1] = pool[n].text]
    /\ access' = [access EXCEPT ![pool[n].i + 1].by = @ \cup {n},
                                ![pool[n].i + 1].writes = @ + 1]
    /\ pool' = [pool EXCEPT ![n].phase = "idle", ![n].text = <<>>,
                            ![n].i = NextIndex(trainer_spec_, pool[n].i)]
    /\ UNCHANGED <<pc, trainer_spec_, wordVars, status_, metaVars, serVars, files, file_i,
                   line_i, self_test_samples_, selector, test_total,
                   twin, too_long_lines, load_status, hist, normalizer_spec_,
                   required_chars_, chars_count, all_chars_count, load_error>>

\* The closure of worker n has returned.
WorkerDone(n) == pool[n].phase = "idle" /\ pool[n].i >= Len(sentences_)

\* Mutant of JoinPool: the caller goes on without waiting for the workers.
JoinPoolDetached ==
    /\ pc = "join"
    /\ pc' = "postcheck"
    /\ hist' = [hist EXCEPT !.normalized = sentences_]
    /\ UNCHANGED <<trainer_spec_, wordVars, status_, metaVars, serVars, files, file_i,
                   line_i, sentences_, self_test_samples_, selector, test_total,
                   twin, too_long_lines, load_status, normVars>>

\* The pool goes out of scope: its destructor returns when every worker has.
JoinPool ==
    /\ pc = "join"
    /\ \A n \in DOMAIN pool : WorkerDone(n)
    /\ pc' = "postcheck"
    /\ hist' = [hist EXCEPT !.normalized = sentences_]
    /\ UNCHANGED <<trainer_spec_, wordVars, status_, metaVars, serVars, files, file_i,
                   line_i, sentences_, self_test_samples_, selector, test_total,
                   twin, too_long_lines, load_status, normVars>>

\* std::swap(sentences_[i], sentences_[size - 1]); resize(size - 1), i from 1.
SwapWithLastAndShrink(ss, i) ==
    [k \in 1..(Len(ss) - 1) |-> IF k = i THEN ss[Len(ss)] ELSE ss[k]]

\* The loop after the pool, from sentence i on: [ok, sentences].
RECURSIVE PostCheckLoop(_, _)
PostCheckLoop(ss, i) ==
    IF i > Len(ss) THEN [ok |-> TRUE, sentences |-> ss]
    ELSE IF Contains(ss[i][1], kSpaceChar) THEN [ok |-> FALSE, sentences |-> ss]
    ELSE IF ss[i][1] = <<>> THEN PostCheckLoop(SwapWithLastAndShrink(ss, i), i + 1)
    ELSE PostCheckLoop(ss, i + 1)

\* The check for spaces and the removal of empty sentences.
PostCheck ==
    /\ pc = "postcheck"
    /\ LET r == PostCheckLoop(sentences_, 1) IN
       /\ sentences_' = r.sentences
       /\ pc' = IF r.ok THEN "count" ELSE "load_failed"
       /\ load_status' = IF r.ok THEN load_status ELSE "error"
       /\ load_error' = IF r.ok THEN load_error ELSE "space"
    /\ UNCHANGED <<trainer_spec_, wordVars, status_, metaVars, serVars, files, file_i,
                   line_i, self_test_samples_, selector, test_total,
                   twin, too_long_lines, hist, normalizer_spec_, pool, access,
                   required_chars_, chars_count, all_chars_count>>

-----------------------------------------------------------------------------
(* LoadSentences: the required characters                                  *)

\* string_util::UTF8ToUnicodeText: a character that does not decode comes
\* out as a white space.
UTF8ToUnicodeText(text) ==
    [k \in 1..Len(text) |-> IF text[k] = kBadChar THEN kSpaceChar ELSE text[k]]

\* string_util::IsValidCodepoint
IsValidCodepoint(c) == (c >= 0 /\ c < 55296) \/ (c >= 57344 /\ c <= 1114111)

\* Mutant of CountSpaceOk: a white space met while counting is skipped.
CountSpaceUnchecked(text) == TRUE

\* CHECK_OR_RETURN(w.first.find(" ") == std::string::npos)
CountSpaceOk(text) == ~Contains(text, kSpaceChar)

\* The counting loop fails: some sentence decodes to a white space and holds one.
CountFails(ss) ==
    \E k \in 1..Len(ss) :
        /\ Contains(UTF8ToUnicodeText(ss[k][1]), kSpaceChar)
        /\ ~CountSpaceOk(ss[k][1])

\* The codepoints the counting loop counts.
IsCounted(c) == IsValidCodepoint(c) /\ c # 0 /\ c # kSpaceChar

Occurrences(text, c) == Cardinality({j \in 1..Len(text) : text[j] = c})

\* The sum of f[k] over k in 1..n.
RECURSIVE SumTo(_, _)
SumTo(f, n) == IF n = 0 THEN 0 ELSE f[n] + SumTo(f, n - 1)

\* chars_count after the counting loop: chars_count[c] += w.second.
CharsCount(ss) ==
    LET chars == UNION { {UTF8ToUnicodeText(ss[k][1])[j] : j \in 1..Len(ss[k][1])}
                         : k \in 1..Len(ss) }
    IN  [c \in {x \in chars : IsCounted(x)} |->
            SumTo([k \in 1..Len(ss) |->
                      ss[k][2] * Occurrences(UTF8ToUnicodeText(ss[k][1]), c)],
                  Len(ss))]

\* all_chars_count after the counting loop.
AllCharsCount(ss) ==
    SumTo([k \in 1..Len(ss) |->
              ss[k][2] * Cardinality({j \in 1..Len(ss[k][1]) :
                                        IsCounted(UTF8ToUnicodeText(ss[k][1])[j])})],
          Len(ss))

\* Sorted(chars_count): by falling frequency, then by rising codepoint.
RECURSIVE Sorted(_, _)
Sorted(m, S) ==
    IF S = {} THEN <<>>
    ELSE LET first == CHOOSE c \in S : \A d \in S \ {c} :
                          m[c] > m[d] \/ (m[c] = m[d] /\ c < d)
         IN  <<<<first, m[first]>>>> \o Sorted(m, S \ {first})

\* coverage >= trainer_spec_.character_coverage(), the target in percent.
CoverageReached(ts, accumulated, all) ==
    accumulated * 100 >= ts.character_coverage * all

\* The loop that determines required_chars_, from entry k of the sorted
\* counts on: [ok, required, accumulated].
RECURSIVE RequiredLoop(_, _, _, _, _, _)
RequiredLoop(ts, sorted, k, accumulated, all, required) ==
    IF k > Len(sorted)
    THEN [ok |-> TRUE, required |-> required, accumulated |-> accumulated]
    ELSE IF ~ts.use_all_vocab /\ CoverageReached(ts, accumulated, all)
    THEN [ok |-> TRUE, required |-> required, accumulated |-> accumulated]
    ELSE LET w == sorted[k]
             acc == accumulated + w[2]
         IN  IF w[1] = kSpaceChar
             THEN [ok |-> FALSE, required |-> required, accumulated |-> acc]
             ELSE IF w[1] = kUPPBoundaryChar
             THEN RequiredLoop(ts, sorted, k + 1, acc, all, required)
             ELSE RequiredLoop(ts, sorted, k + 1, acc, all, required \cup {w[1]})

\* Mutant of ReplaceRare: the text is left as it is.
ReplaceRareKeeps(text, required) == UTF8ToUnicodeText(text)

\* The rewriting of the characters that are not required.
ReplaceRare(text, required) ==
    [k \in 1..Len(text) |->
        IF UTF8ToUnicodeText(text)[k] \in required
        THEN UTF8ToUnicodeText(text)[k] ELSE kUNKChar]

\* Mutant of VocabFits: the alphabet is held against vocab_size alone.
VocabFitsWithoutMeta(ts, nrequired, nmeta) ==
    ts.model_type \in {"WORD", "CHAR"} \/ nrequired <= ts.vocab_size

\* The check of required_chars_.size() + meta_pieces_.size() against vocab_size.
VocabFits(ts, nrequired, nmeta) ==
    ts.model_type \in {"WORD", "CHAR"} \/ nrequired + nmeta <= ts.vocab_size

\* LoadSentences from the counting of the characters to its return.
BuildCoverage ==
    /\ pc = "count"
    /\ IF CountFails(sentences_)
       THEN /\ load_error' = "space_counted"
            /\ UNCHANGED <<sentences_, required_chars_, chars_count, all_chars_count>>
       ELSE LET cc == CharsCount(sentences_)
                all == AllCharsCount(sentences_)
                r == RequiredLoop(trainer_spec_, Sorted(cc, DOMAIN cc), 1, 0, all, {})
                fits == VocabFits(trainer_spec_, Cardinality(r.required),
                                  Cardinality(DOMAIN meta_pieces_))
            IN  /\ chars_count' = cc
                /\ all_chars_count' = all
                /\ required_chars_' = [c \in r.required |-> cc[c]]
                /\ IF ~r.ok THEN load_error' = "space_required" /\ UNCHANGED sentences_
                   ELSE IF kUNKChar \in r.required
                   THEN load_error' = "unk_required" /\ UNCHANGED sentences_
                   ELSE /\ sentences_' = [k \in 1..Len(sentences_) |->
                               <<ReplaceRare(sentences_[k][1], r.required),
                                 sentences_[k][2]>>]
                        /\ load_error' = IF fits THEN "none" ELSE "vocab_too_small"
    /\ load_status' = IF load_error' = "none" THEN "ok" ELSE "error"
    /\ pc' = IF load_error' = "none" THEN "loaded" ELSE "load_failed"
    /\ UNCHANGED <<trainer_spec_, wordVars, status_, metaVars, serVars, files, file_i,
                   line_i, self_test_samples_, selector, test_total,
                   twin, too_long_lines, hist, normalizer_spec_, pool, access>>

-----------------------------------------------------------------------------
(* SpecNorm: construction and the whole of LoadSentences on a small corpus *)

LSp    == <<32>>                       \* " "
LBsC   == <<98, 32, 99>>               \* "b c"
LXa    == <<120, 97>>                  \* "xa"
LXb    == <<120, 98>>                  \* "xb"
LTa49  == <<97, 9, 52, 57>>            \* "a<tab>49"
LTb1   == <<98, 9, 49>>                \* "b<tab>1"
LTXa1  == <<120, 97, 9, 49>>           \* "xa<tab>1"

\* The inputs of SpecNorm: a format and the lines of the one input file.
NormInputs ==
    { [format |-> f, lines |-> Cycle(pat, n)] :
        f \in {"text"}, n \in 1..MaxLines,
        pat \in { <<LSp, LA, LSp>>, <<LSp, LA, LBsC>>, <<LXa, LXb, LB>>, <<LLong>> } }
    \cup
    { [format |-> "tsv", lines |-> Cycle(<<LTa49, LTb1, LTXa1>>, n)] : n \in 1..MaxLines }

NormalizerSpecs ==
    { DefaultNormalizerSpec,
      [DefaultNormalizerSpec EXCEPT !.add_dummy_prefix = FALSE],
      [DefaultNormalizerSpec EXCEPT !.add_dummy_prefix = FALSE,
                                    !.escape_whitespaces = FALSE] }

\* model_type and use_all_vocab
NormModelTypes ==
    { <<"UNIGRAM", FALSE>>, <<"WORD", FALSE>>, <<"CHAR", FALSE>>, <<"CHAR", TRUE>> }

InitNormWith(inputs, threads, nspecs, types, vocabs, coverages, symbols) ==
    /\ \E input \in inputs, t \in threads, m \in types, v \in vocabs,
          cov \in coverages, syms \in symbols :
          /\ files = <<[ok |-> TRUE, lines |-> input.lines]>>
          /\ trainer_spec_ =
                [DefaultSpec EXCEPT !.input_format = input.format,
                                    !.num_threads = t,
                                    !.model_type = m[1],
                                    !.use_all_vocab = m[2],
                                    !.vocab_size = v,
                                    !.character_coverage = cov,
                                    !.user_defined_symbols = syms]
    /\ normalizer_spec_ \in nspecs
    /\ InitTrainer
    /\ file_i = 1
    /\ line_i = 0
    /\ sentences_ = <<>>
    /\ self_test_samples_ = <<>>
    /\ selector = [total |-> 0, engine |-> 0]
    /\ test_total = 0
    /\ twin = [sentences |-> <<>>, total |-> 0, engine |-> 0]
    /\ too_long_lines = 0
    /\ load_status = "none"
    /\ hist = NoHist
    /\ InitNormVars

InitNorm ==
    InitNormWith(NormInputs, 1..MaxThreads, NormalizerSpecs, NormModelTypes,
                 {4, 7}, {98, 100}, {<<>>, <<TX>>})

NextNorm ==
    \/ Construct
    \/ InsertMetaSymbol
    \/ InitMetaPiecesReturn
    \/ LoadBegin
    \/ OpenFile
    \/ ReadLine
    \/ EndOfFile
    \/ EndOfInput
    \/ NormalizeBegin
    \/ Schedule
    \/ \E n \in 0..(MaxThreads - 1) : WorkerRead(n)
    \/ \E n \in 0..(MaxThreads - 1) : WorkerWrite(n)
    \/ JoinPool
    \/ PostCheck
    \/ BuildCoverage

SpecNorm == InitNorm /\ [][NextNorm]_vars

\* SpecPool: the same steps from fewer configurations; the caller and every
\* scheduled worker keep running.
InitPool ==
    InitNormWith(NormInputs, 1..MaxThreads, {DefaultNormalizerSpec},
                 {<<"UNIGRAM", FALSE>>}, {7}, {100}, {<<>>, <<TX>>})

SpecPool ==
    /\ InitPool
    /\ [][NextNorm]_vars
    /\ WF_vars(NormalizeBegin)
    /\ WF_vars(Schedule)
    /\ WF_vars(JoinPool)
    /\ \A n \in 0..(MaxThreads - 1) :
          WF_vars(WorkerRead(n)) /\ WF_vars(WorkerWrite(n))

-----------------------------------------------------------------------------
(* wordpiece_encode_as_subwords                                            *)

MaxWord == 3

\* "##", put in front of a piece that does not start the word
Continuation == <<35, 35>>

\* The inner loop with end as given: the longest piece x[start..end] (both
\* counted from 0, end > start) that is in the vocabulary.
RECURSIVE LongestMatch(_, _, _, _)
LongestMatch(x, vocabulary, start, end) ==
    IF ~(start < end) THEN [found |-> FALSE, end |-> end, substr |-> <<>>]
    ELSE LET piece == SubSeq(x, start + 1, end + 1)
             substr == IF start > 0 THEN Continuation \o piece ELSE piece
         IN  IF substr \in vocabulary
             THEN [found |-> TRUE, end |-> end, substr |-> substr]
             ELSE LongestMatch(x, vocabulary, start, end - 1)

\* The outer loop, while (start < len), from start on.
RECURSIVE SubTokens(_, _, _, _, _, _)
SubTokens(x, vocabulary, unk_token, len, start, sub_tokens) ==
    IF ~(start < len) THEN sub_tokens
    ELSE LET m == LongestMatch(x, vocabulary, start, len)
         IN  IF ~m.found THEN Append(sub_tokens, unk_token)
             ELSE SubTokens(x, vocabulary, unk_token, len, m.end + 1,
                            Append(sub_tokens, m.substr))

\* wordpiece_encode_as_subwords. len is an unsigned int, x.length() - 1: for
\* the empty word it wraps to 2^32 - 1, which is above every
\* max_input_chars_per_word (an int, converted to unsigned for the comparison).
wordpiece_encode_as_subwords(x, vocabulary, unk_token, max_input_chars_per_word) ==
    LET wraps == Len(x) = 0
        len == Len(x) - 1 IN
    IF wraps \/ len > max_input_chars_per_word THEN <<unk_token>>
    ELSE LET sub_tokens == SubTokens(x, vocabulary, unk_token, len, 0, <<>>)
         IN  IF Len(sub_tokens) = 0 THEN <<unk_token>> ELSE sub_tokens

\* A call of wordpiece_encode_as_subwords.
Encode ==
    /\ pc = "word"
    /\ output_tokens' = wordpiece_encode_as_subwords(word.x, word.vocabulary,
                            word.unk_token, word.max_input_chars_per_word)
    /\ pc' = "encoded"
    /\ UNCHANGED <<trainer_spec_, status_, metaVars, serVars, loadVars, word>>

\* The words over "a", "b" of at most n characters.
WordsUpTo(n) == SeqsUpTo({97, 98}, n)

\* The pieces a vocabulary of SpecWord is made of.
WordPieces ==
    { <<97>>, <<98>>, <<97, 98>>,
      Continuation \o <<97>>, Continuation \o <<98>>, Continuation \o <<97, 98>> }

InitWord ==
    /\ \E x \in WordsUpTo(MaxWord), v \in SUBSET WordPieces, max \in {2, 100} :
          word = [NoWord EXCEPT !.x = x, !.vocabulary = v,
                                !.max_input_chars_per_word = max]
    /\ output_tokens = <<>>
    /\ pc = "word"
    /\ trainer_spec_ = DefaultSpec
    /\ status_ = "ok"
    /\ meta_pieces_ = NoPieces
    /\ dup = {}
    /\ id = 0
    /\ sym_i = 1
    /\ final_pieces_ = <<>>
    /\ model_proto = EmptyProto
    /\ ser_status = "none"
    /\ model_file = NoOutput
    /\ vocab_file = NoOutput
    /\ save_status = "none"
    /\ saved_by = "none"
    /\ InitLoadVars

NextWord == Encode

SpecWord == InitWord /\ [][NextWord]_vars

-----------------------------------------------------------------------------
(* Properties of Serialize (SpecSer)                                       *)

Serialized == pc = "serialized" /\ ser_status = "ok"

Pieces == model_proto.pieces

SoftLimit(ts) == ~ts.hard_vocab_limit \/ ts.model_type = "CHAR"

\* C1: when Serialize succeeds, under the hard limit (and a model other than
\* CHAR) the number of emitted pieces is vocab_size; otherwise it is at most
\* vocab_size and the vocab_size recorded in the artifact is that number.
C1_PieceCount ==
    Serialized =>
        IF ~SoftLimit(trainer_spec_)
        THEN Len(Pieces) = trainer_spec_.vocab_size
        ELSE /\ Len(Pieces) <= trainer_spec_.vocab_size
             /\ model_proto.has_trainer_spec
             /\ model_proto.vocab_size = Len(Pieces)

\* Serialize succeeded under the soft limit with fewer pieces than vocab_size.
C1_Witness ==
    /\ Serialized
    /\ SoftLimit(trainer_spec_)
    /\ Len(Pieces) > 1
    /\ Len(Pieces) < trainer_spec_.vocab_size
    /\ model_proto.vocab_size = Len(Pieces)

\* C2: when Serialize succeeds, no emitted piece is empty, holds a raw space
\* or holds the unknown character, and no two emitted pieces have one text.
C2_NoInvalidPieceEmitted ==
    Serialized =>
        /\ \A k \in 1..Len(Pieces) :
              /\ Pieces[k].piece # Empty
              /\ ~Contains(Pieces[k].piece, kSpaceChar)
              /\ ~Contains(Pieces[k].piece, kUNKChar)
        /\ \A k, l \in 1..Len(Pieces) :
              k # l => Pieces[k].piece # Pieces[l].piece

\* The number of identifiers below i that hold no meta piece.
LearnedBelow(i) == Cardinality({j \in 0..(i - 1) : j \notin DOMAIN meta_pieces_})

\* C3: when Serialize succeeds, the piece at index i is the meta piece
\* registered at i (score 0, category other than NORMAL) if there is one, and
\* otherwise the k-th learned piece, k counting the identifiers below i that
\* hold no meta piece.
C3_Interleaving ==
    Serialized =>
        \A i \in 0..(Len(Pieces) - 1) :
            IF i \in DOMAIN meta_pieces_
            THEN /\ Pieces[i + 1].piece = meta_pieces_[i].piece
                 /\ Pieces[i + 1].type = meta_pieces_[i].type
                 /\ Pieces[i + 1].type # "NORMAL"
                 /\ Pieces[i + 1].score = 0
            ELSE /\ LearnedBelow(i) < Len(final_pieces_)
                 /\ Pieces[i + 1].piece = final_pieces_[LearnedBelow(i) + 1].piece
                 /\ Pieces[i + 1].score = final_pieces_[LearnedBelow(i) + 1].score
                 /\ Pieces[i + 1].type = "NORMAL"

\* Serialize succeeded with a learned piece between two meta pieces.
C3_Witness ==
    /\ Serialized
    /\ Len(Pieces) = 3
    /\ DOMAIN meta_pieces_ = {0, 2}
    /\ Len(final_pieces_) = 1

\* The identifiers in [0, vocab_size) that hold no meta piece.
FreeIds == {i \in 0..(trainer_spec_.vocab_size - 1) : i \notin DOMAIN meta_pieces_}

\* C18: when more learned pieces are supplied than identifiers in
\* [0, vocab_size) hold no meta piece, Serialize fails, under hard and soft
\* enforcement alike.
C18_LeftoverPiecesFail ==
    (pc = "serialized" /\ Len(final_pieces_) > Cardinality(FreeIds))
        => ser_status = "error"

\* Under the soft limit two valid learned pieces met one free identifier:
\* the loop filled every identifier and Serialize failed.
C18_Witness ==
    /\ pc = "serialized"
    /\ status_ = "ok"
    /\ SoftLimit(trainer_spec_)
    /\ final_pieces_ = <<[piece |-> TA, score |-> -1], [piece |-> TB, score |-> -2]>>
    /\ Cardinality(FreeIds) = 1
    /\ Len(Pieces) = trainer_spec_.vocab_size
    /\ ser_status = "error"

\* C17: when Serialize fails, the save operation called (SaveModel,
\* SaveVocab or Save) returns an error and writes neither output file.
C17_NoOutputPastFailure ==
    (pc = "saved" /\
     ~Serialize(trainer_spec_, status_, meta_pieces_, final_pieces_).ok)
        => /\ save_status = "error"
           /\ ~model_file.written
           /\ ~vocab_file.written

\* C23: when Serialize succeeds on a trainer constructed successfully, every
\* registered meta piece is in the artifact at the index of its identifier.
C23_MetaPiecesEmitted ==
    (Serialized /\ status_ = "ok") =>
        \A i \in DOMAIN meta_pieces_ :
            /\ i < Len(Pieces)
            /\ Pieces[i + 1].piece = meta_pieces_[i].piece
            /\ Pieces[i + 1].type = meta_pieces_[i].type

-----------------------------------------------------------------------------
(* Properties of the meta piece registry (SpecMeta)                        *)

Constructed == pc = "constructed" /\ status_ = "ok"

\* InitMetaPieces is past its reserved symbols and has not failed.
Registered == pc \in {"init_meta", "constructed"} /\ status_ = "ok"

\* C4: after a successful construction every meta piece identifier lies in
\* [0, vocab_size).
C4_MetaIdsInRange ==
    Constructed =>
        \A i \in DOMAIN meta_pieces_ : 0 <= i /\ i < trainer_spec_.vocab_size

Unknowns == {i \in DOMAIN meta_pieces_ : meta_pieces_[i].type = "UNKNOWN"}

\* The reserved symbols given a non-negative identifier, as (id, text).
ReservedWithId(ts) ==
    { p \in { <<ts.unk_id, ts.unk_piece>>, <<ts.bos_id, ts.bos_piece>>,
              <<ts.eos_id, ts.eos_piece>>, <<ts.pad_id, ts.pad_piece>> } :
        p[1] >= 0 }

\* C5: after InitMetaPieces succeeds exactly one meta piece is UNKNOWN, its
\* text is the configured unknown text and is not empty; and construction
\* fails when no reserved symbol with a non-negative id has the unknown text.
C5_ExactlyOneUnknown ==
    /\ Registered =>
          /\ Cardinality(Unknowns) = 1
          /\ \A i \in Unknowns :
                /\ meta_pieces_[i].piece = trainer_spec_.unk_piece
                /\ meta_pieces_[i].piece # Empty
    /\ (pc = "constructed" /\
        \A p \in ReservedWithId(trainer_spec_) : p[2] # trainer_spec_.unk_piece)
          => status_ = "error"

\* Constructed with the unknown text carried by bos and an alias applied.
C5_Witness ==
    /\ Constructed
    /\ trainer_spec_.unk_id < 0
    /\ trainer_spec_.pad_id >= 0
    /\ trainer_spec_.pad_id \in DOMAIN meta_pieces_
    /\ meta_pieces_[trainer_spec_.pad_id].type = "USER_DEFINED"

\* C6: after a successful construction the meta piece texts are pairwise
\* distinct.
C6_MetaTextsDistinct ==
    Constructed =>
        \A i, j \in DOMAIN meta_pieces_ :
            i # j => meta_pieces_[i].piece # meta_pieces_[j].piece

\* The identifiers of the reserved symbols bos, eos, pad that w names.
AliasIds(ts, w) ==
    { p[1] : p \in { q \in { <<ts.bos_id, ts.bos_piece>>, <<ts.eos_id, ts.eos_piece>>,
                             <<ts.pad_id, ts.pad_piece>> } :
                       q[1] >= 0 /\ q[2] = w } }

\* The symbol the next call of insert_meta_symbol is given.
NextSymbol == MetaSymbols(trainer_spec_)[sym_i]

\* C7: a call of insert_meta_symbol with a symbol whose text is the bos, eos
\* or pad text of a reserved symbol with id >= 0 allocates no identifier and
\* changes no text and no other entry; when the symbol is accepted the entry
\* of that reserved symbol takes the category of the symbol's list.
C7_AliasFrame ==
    [][ ( /\ pc = "init_meta"
          /\ sym_i <= Len(MetaSymbols(trainer_spec_))
          /\ sym_i' = sym_i + 1
          /\ AliasIds(trainer_spec_, NextSymbol.w) # {} )
        => /\ DOMAIN meta_pieces_' = DOMAIN meta_pieces_
           /\ \A i \in DOMAIN meta_pieces_ :
                 meta_pieces_'[i].piece = meta_pieces_[i].piece
           /\ status_' = "ok" =>
                 \E r \in AliasIds(trainer_spec_, NextSymbol.w) :
                     meta_pieces_' = [meta_pieces_ EXCEPT ![r].type = NextSymbol.type]
           /\ status_' # "ok" => meta_pieces_' = meta_pieces_ ]_vars

\* A user-defined symbol named like pad has been accepted and pad's entry is
\* USER_DEFINED, with as many entries as the reserved symbols made.
C7_Witness ==
    /\ Registered
    /\ sym_i = 2
    /\ Len(trainer_spec_.control_symbols) = 0
    /\ trainer_spec_.user_defined_symbols[1] = trainer_spec_.pad_piece
    /\ trainer_spec_.pad_id >= 0
    /\ meta_pieces_[trainer_spec_.pad_id] =
          [piece |-> trainer_spec_.pad_piece, type |-> "USER_DEFINED"]
    /\ Cardinality(DOMAIN meta_pieces_) = Cardinality(ReservedWithId(trainer_spec_))

\* The smallest non-negative integer that is no identifier of meta.
SmallestUnused(meta) ==
    CHOOSE n \in 0..Cardinality(DOMAIN meta) :
        n \notin DOMAIN meta /\ \A j \in 0..(n - 1) : j \in DOMAIN meta

\* C19: a call of insert_meta_symbol that accepts a symbol to which the alias
\* rule does not apply (also one named like bos, eos or pad whose id is
\* negative) registers it, with the category of its list, at the smallest
\* non-negative integer not registered, and leaves every other entry as it is.
C19_SmallestUnusedId ==
    [][ ( /\ pc = "init_meta"
          /\ sym_i <= Len(MetaSymbols(trainer_spec_))
          /\ sym_i' = sym_i + 1
          /\ status_' = "ok"
          /\ AliasIds(trainer_spec_, NextSymbol.w) = {} )
        => LET n == SmallestUnused(meta_pieces_) IN
           /\ DOMAIN meta_pieces_' = DOMAIN meta_pieces_ \cup {n}
           /\ meta_pieces_'[n] = [piece |-> NextSymbol.w, type |-> NextSymbol.type]
           /\ \A i \in DOMAIN meta_pieces_ : meta_pieces_'[i] = meta_pieces_[i]
           /\ id' = n ]_vars

\* A control symbol named like bos, whose id is negative, was allocated the
\* identifier between the unknown symbol and eos.
C19_Witness ==
    /\ Registered
    /\ sym_i = 2
    /\ trainer_spec_.bos_id < 0
    /\ trainer_spec_.control_symbols = <<trainer_spec_.bos_piece>>
    /\ trainer_spec_.unk_id = 0
    /\ trainer_spec_.eos_id = 2
    /\ trainer_spec_.unk_piece # trainer_spec_.bos_piece
    /\ DOMAIN meta_pieces_ = {0, 1, 2}
    /\ meta_pieces_[1] = [piece |-> trainer_spec_.bos_piece, type |-> "CONTROL"]

-----------------------------------------------------------------------------
(* Properties of the corpus loading (SpecLoad)                             *)

\* The lines of the files fs, one file after the other.
RECURSIVE Concat(_)
Concat(fs) == IF fs = <<>> THEN <<>> ELSE Head(fs).lines \o Concat(Tail(fs))

\* The concatenated input stream.
Stream == Concat([k \in 1..Len(trainer_spec_.input) |-> files[trainer_spec_.input[k]]])

\* The accepted lines among ls, in order, as (sentence, frequency).
Accepted(ls) ==
    LET IsAccepted(l) == LineOutcome(trainer_spec_, l) = "accept"
        kept == SelectSeq(ls, IsAccepted)
    IN  [k \in 1..Len(kept) |-> <<ParseLine(trainer_spec_, kept[k]).sentence,
                                  ParseLine(trainer_spec_, kept[k]).freq>>]

\* The file that holds line n of the stream.
RECURSIVE FileOf(_, _)
FileOf(n, f) ==
    IF f >= Len(trainer_spec_.input) \/ n <= Len(files[trainer_spec_.input[f]].lines)
    THEN f
    ELSE FileOf(n - Len(files[trainer_spec_.input[f]].lines), f + 1)

Loading == pc \in {"open", "read", "selected"}

HeadLimit ==
    trainer_spec_.input_sentence_size > 0 /\ ~trainer_spec_.shuffle_input_sentence

Shuffled ==
    trainer_spec_.input_sentence_size > 0 /\ trainer_spec_.shuffle_input_sentence

\* C8: with a limit N > 0 and no shuffling the corpus is the first
\* min(N, M) accepted lines of the stream in order; the line read last when
\* the N-th sentence is accepted is that N-th accepted line, no file after
\* its file is opened, and nothing more is offered to the selector or to the
\* self-test sampler.
C8_HeadLimit ==
    (HeadLimit /\ Loading) =>
        /\ sentences_ = Accepted(Take(Stream, hist.read))
        /\ Len(sentences_) <= trainer_spec_.input_sentence_size
        /\ hist.sel = Len(sentences_)
        /\ hist.test = Len(sentences_)
        /\ pc = "selected" =>
              sentences_ = Take(Accepted(Stream), trainer_spec_.input_sentence_size)
        /\ Len(sentences_) = trainer_spec_.input_sentence_size =>
              /\ pc = "selected"
              /\ LineOutcome(trainer_spec_, Stream[hist.read]) = "accept"
              /\ hist.opened = FileOf(hist.read, 1)

\* The limit was reached in the third file; the fourth, which cannot be
\* opened, and the rest of the third were left unread.
C8_Witness ==
    /\ HeadLimit
    /\ pc = "selected"
    /\ Len(sentences_) = trainer_spec_.input_sentence_size
    /\ hist.read < Len(Stream)
    /\ line_i < Len(CurrentLines)
    /\ hist.opened = 3
    /\ Len(files) = 4
    /\ ~files[4].ok

C10_EmptyLineDropped ==
    [][ ( /\ pc = "read"
          /\ line_i < Len(CurrentLines)
          /\ line_i' = line_i + 1
          /\ CurrentLines[line_i + 1] = Empty )
        => /\ pc' = "read"
           /\ load_status' = load_status
           /\ sentences_' = sentences_
           /\ self_test_samples_' = self_test_samples_ ]_vars

\* The line the next pass through the loop body reads, parsed.
NextLineParsed == ParseLine(trainer_spec_, CurrentLines[line_i + 1])

\* That line is well formed and too long or holds the reserved marker.
NextLineDropped ==
    /\ NextLineParsed.ok
    /\ NextLineParsed.sentence # <<>>
    /\ \/ ByteSize(NextLineParsed.sentence) > trainer_spec_.max_sentence_length
       \/ Contains(NextLineParsed.sentence, kUNKChar)

\* C21: a line is offered to the self-test sampler exactly when it is offered
\* to the selector, the sampler first; a well-formed line that is too long or
\* holds the reserved marker is offered to neither, does not fail the load
\* and leaves the corpus, and so the count held against N, as it is.
C21_OfferedToBoth ==
    /\ [](hist.test = hist.sel /\ hist.last \in {<<>>, <<"test_sentence_sampler", "selector">>})
    /\ [][ ( /\ pc = "read"
             /\ line_i < Len(CurrentLines)
             /\ line_i' = line_i + 1
             /\ NextLineDropped )
           => /\ pc' = "read"
              /\ load_status' = load_status
              /\ hist'.test = hist.test
              /\ hist'.sel = hist.sel
              /\ hist'.last = <<>>
              /\ sentences_' = sentences_
              /\ self_test_samples_' = self_test_samples_
              /\ test_total' = test_total
              /\ selector' = selector ]_vars

\* Under the head limit too long lines and lines with the marker were read
\* and dropped; the N-th accepted line went to the sampler and the selector.
C21_Witness ==
    /\ HeadLimit
    /\ trainer_spec_.self_test_sample_size > 0
    /\ pc = "selected"
    /\ too_long_lines > 0
    /\ Len(sentences_) = trainer_spec_.input_sentence_size
    /\ hist.read > too_long_lines + Len(sentences_)
    /\ hist.test = trainer_spec_.input_sentence_size
    /\ hist.last = <<"test_sentence_sampler", "selector">>

-----------------------------------------------------------------------------
(* Properties of the normalization (SpecNorm, SpecPool)                    *)

Threads == trainer_spec_.num_threads

\* The workers that are at a sentence slot.
AtSlot == {n \in DOMAIN pool : pool[n].i < Len(sentences_)}

\* C11: every sentence slot is accessed by the worker (index mod T) alone and
\* written at most once, no two workers are at one slot, and when the pool
\* has been joined every slot has been written once and the corpus is the
\* substitution applied to the normalization of each selected sentence.
C11_DisjointSlots ==
    /\ \A k \in DOMAIN access :
          /\ access[k].by \subseteq {(k - 1) % Threads}
          /\ access[k].writes <= 1
    /\ \A m, n \in AtSlot : m # n => pool[m].i # pool[n].i
    /\ hist.normalized # <<>> =>
          /\ Len(hist.normalized) = Len(hist.selected)
          /\ \A k \in DOMAIN access :
                /\ access[k].writes = 1
                /\ access[k].by = {(k - 1) % Threads}
                /\ hist.normalized[k] =
                      <<NormalizedText(hist.selected[k][1]), hist.selected[k][2]>>

\* Two workers have normalized three sentences, the first worker two of them.
C11_Witness ==
    /\ pc = "postcheck"
    /\ Threads = 2
    /\ Len(hist.selected) = 3
    /\ access[1].by = {0} /\ access[2].by = {1} /\ access[3].by = {0}
    /\ \A k \in 1..3 : sentences_[k] # hist.selected[k]

\* LoadSentences has returned.
Returned == pc \in {"loaded", "load_failed"}

SpaceAfterNormalizing ==
    \E k \in 1..Len(hist.normalized) : Contains(hist.normalized[k][1], kSpaceChar)

\* C12: when a sentence holds a raw space after the normalization,
\* LoadSentences returns an error, wherever the sentence stands.
C12_SpaceIsAnError ==
    (Returned /\ SpaceAfterNormalizing) =>
        /\ pc = "load_failed"
        /\ load_status = "error"
        /\ load_error \in {"space", "space_counted"}

\* The sentence with the space was moved by the removal of an empty one to a
\* place the check after the pool had passed; the counting found it.
C12_Witness ==
    /\ pc = "load_failed"
    /\ load_error = "space_counted"
    /\ hist.normalized[1][1] = <<>>
    /\ Contains(hist.normalized[Len(hist.normalized)][1], kSpaceChar)
    /\ Contains(sentences_[1][1], kSpaceChar)

\* The number of places of ss that hold x.
CountIn(ss, x) == Cardinality({k \in 1..Len(ss) : ss[k] = x})

HasText(sentence) == sentence[1] # <<>>

\* C13: after the removal pass the corpus is the multiset of the normalized
\* sentences whose text is not empty.
C13_EmptyRemoved ==
    pc = "count" =>
        /\ \A k \in 1..Len(sentences_) : HasText(sentences_[k])
        /\ \A k \in 1..Len(hist.normalized) :
              CountIn(sentences_, hist.normalized[k]) =
              CountIn(SelectSeq(hist.normalized, HasText), hist.normalized[k])

\* The sum of f over S.
RECURSIVE SumOver(_, _)
SumOver(f, S) ==
    IF S = {} THEN 0
    ELSE LET c == CHOOSE x \in S : TRUE IN f[c] + SumOver(f, S \ {c})

\* The required characters have been determined.
Covered == Returned /\ load_error \in {"none", "vocab_too_small"} /\ chars_count # NoCounts

RequiredSum == SumOver(required_chars_, DOMAIN required_chars_)

\* C14: with use_all_vocab off the required characters reach the coverage
\* target, and without the least frequent of them they do not.
C14_MinimalCoverage ==
    (Covered /\ ~trainer_spec_.use_all_vocab) =>
        /\ RequiredSum * 100 >= trainer_spec_.character_coverage * all_chars_count
        /\ \A c \in DOMAIN required_chars_ :
              (\A d \in DOMAIN required_chars_ : required_chars_[c] <= required_chars_[d])
              => (RequiredSum - required_chars_[c]) * 100
                     < trainer_spec_.character_coverage * all_chars_count

Bounded == trainer_spec_.model_type \notin {"WORD", "CHAR"}

AlphabetTooLarge ==
    Cardinality(DOMAIN required_chars_) + Cardinality(DOMAIN meta_pieces_)
        > trainer_spec_.vocab_size

AllTooLong ==
    /\ hist.read > 0
    /\ hist.read = Len(Stream)
    /\ too_long_lines = hist.read

\* C16 as stated: a corpus of too long lines alone fails in the coverage
\* computation, on the vocabulary size.
C16_FailsOnVocabularySize ==
    (AllTooLong /\ pc = "load_failed") => load_error = "vocab_too_small"

\* C16 as amended: too long lines are dropped without failing the load, and
\* when every line was too long LoadSentences fails on the empty corpus,
\* before the normalization, whatever the model type.
C16_FailsOnEmptyCorpus ==
    /\ (hist.read > 0 /\ too_long_lines = hist.read /\ pc \in {"read", "open", "selected"})
          => (load_status = "none" /\ sentences_ = <<>>)
    /\ (AllTooLong /\ pc \notin {"read", "open", "selected"})
          => /\ pc = "load_failed"
             /\ load_error = "empty_corpus"
             /\ pool = <<>>
             /\ chars_count = NoCounts

\* A CHAR load of three too long lines failed on the empty corpus.
C16_Witness ==
    /\ AllTooLong
    /\ too_long_lines = 3
    /\ trainer_spec_.model_type = "CHAR"
    /\ pc = "load_failed"
    /\ load_error = "empty_corpus"

\* C22: in the step in which LoadSentences succeeds every codepoint of the
\* corpus is a required character or kUNKChar, every sentence keeps its
\* number of codepoints, and kUNKChar, the space and the boundary marker are
\* no required characters.
C22_RewrittenCorpus ==
    [][ (pc = "count" /\ pc' = "loaded")
        => /\ Len(sentences_') = Len(sentences_)
           /\ \A k \in 1..Len(sentences_) :
                 /\ Len(sentences_'[k][1]) = Len(sentences_[k][1])
                 /\ sentences_'[k][2] = sentences_[k][2]
                 /\ \A j \in 1..Len(sentences_'[k][1]) :
                       \/ sentences_'[k][1][j] \in DOMAIN required_chars_'
                       \/ sentences_'[k][1][j] = kUNKChar
           /\ kUNKChar \notin DOMAIN required_chars_'
           /\ kSpaceChar \notin DOMAIN required_chars_'
           /\ kUPPBoundaryChar \notin DOMAIN required_chars_' ]_vars

\* A load succeeded whose corpus had a boundary marker and a rare character:
\* both are rewritten to kUNKChar, the required characters are kept.
C22_Witness ==
    /\ pc = "loaded"
    /\ kUPPBoundaryChar \in DOMAIN chars_count
    /\ Cardinality(DOMAIN required_chars_) + 1 < Cardinality(DOMAIN chars_count)
    /\ \E k \in 1..Len(sentences_) :
          /\ Contains(sentences_[k][1], kUNKChar)
          /\ \E j \in 1..Len(sentences_[k][1]) :
                sentences_[k][1][j] \in DOMAIN required_chars_

\* The caller is past the scope of the pool.
PastJoin == pc \in {"postcheck", "count", "loaded", "load_failed"}

\* C20: the caller is past the pool only when every worker has returned, and
\* once the pool is being used the caller comes to the check after it.
C20_JoinBarrier ==
    /\ [](PastJoin => \A n \in DOMAIN pool : WorkerDone(n))
    /\ (pc \in {"schedule", "join"}) ~> (pc = "postcheck")

\* The caller begins the check after three workers wrote three sentences.
C20_Witness ==
    /\ pc = "postcheck"
    /\ Len(access) = 3
    /\ DOMAIN pool = {0, 1, 2}
    /\ \A n \in DOMAIN pool : WorkerDone(n)
    /\ \A k \in 1..3 : access[k].writes = 1

-----------------------------------------------------------------------------
(* Properties of wordpiece_encode_as_subwords (SpecWord)                   *)

\* The token without its "##" when it is not the first one.
Stripped(tokens, k) ==
    IF k > 1 /\ Len(tokens[k]) >= 2 /\ SubSeq(tokens[k], 1, 2) = Continuation
    THEN SubSeq(tokens[k], 3, Len(tokens[k]))
    ELSE tokens[k]

\* The tokens put together again, from token k on.
RECURSIVE Detokenized(_, _)
Detokenized(tokens, k) ==
    IF k > Len(tokens) THEN <<>>
    ELSE Stripped(tokens, k) \o Detokenized(tokens, k + 1)

\* C24: for a word of 1 to max_input_chars_per_word characters, an output
\* without unk_token, put together again, is the word.
C24_TokensSpellTheWord ==
    ( /\ pc = "encoded"
      /\ Len(word.x) >= 1
      /\ Len(word.x) <= word.max_input_chars_per_word
      /\ \A k \in 1..Len(output_tokens) : output_tokens[k] # word.unk_token )
        => Detokenized(output_tokens, 1) = word.x

====
